---- MODULE Spec2Model ----
(***************************************************************************)
(* Model of src/main.py: the voice assistant's turn-taking loop (main),    *)
(* the conversation query (analyze_audio, get_or_create_thread), the       *)
(* command-execution session (open_interpreter_session), audio capture     *)
(* (get_audio_input, transcribe_audio) and speech output (play_audio).     *)
(*                                                                         *)
(* The program is single-threaded.  Every blocking call (microphone,       *)
(* remote service, playback, sleep, command agent) is a step whose outcome *)
(* the environment chooses: it returns, it raises an Exception, or a       *)
(* KeyboardInterrupt is delivered while the program is blocked in it.  A   *)
(* step runs from one blocking call to the next.  A KeyboardInterrupt can  *)
(* also be delivered between any two statements of a step and inside a     *)
(* print statement: each step has one interrupted successor for every      *)
(* prefix of its statements that leaves a different state.  Whether main() *)
(* catches it depends on the statement: the loop head, `continue`, `break`,*)
(* the except clauses and line 254 are outside the protected range.        *)
(* Strings the code compares are sequences of characters, so that lower()  *)
(* and strip() are computed; a character is a code point up to U+00FF,     *)
(* which is what a string of this module can hold.  Texts the code builds  *)
(* with f-strings are tuples of their segments.  Python's None and the     *)
(* empty string are both falsy and are both the empty sequence.            *)
(***************************************************************************)
EXTENDS Integers, Sequences, FiniteSets, TLC

\* The user speaks at most this many utterances; afterwards capture only
\* times out, fails or is interrupted.
MaxUtterances == 3

None == <<>>

----------------------------------------------------------------------------
(* Strings *)

\* The characters str.isspace() accepts: tab, line feed, vertical tab, form
\* feed, carriage return, the separators U+001C to U+001F, space, next line
\* (U+0085) and no-break space (U+00A0).
Whitespace ==
    {"\t","\n","","\f","\r","","","",""," ",""," "}

\* The characters str.lower() changes, and what it changes them to.
UpperChars == <<"A","B","C","D","E","F","G","H","I","J","K","L","M",
                "N","O","P","Q","R","S","T","U","V","W","X","Y","Z",
                "À","Á","Â","Ã","Ä","Å","Æ","Ç","È","É","Ê","Ë","Ì",
                "Í","Î","Ï","Ð","Ñ","Ò","Ó","Ô","Õ","Ö","Ø","Ù","Ú",
                "Û","Ü","Ý","Þ">>
LowerChars == <<"a","b","c","d","e","f","g","h","i","j","k","l","m",
                "n","o","p","q","r","s","t","u","v","w","x","y","z",
                "à","á","â","ã","ä","å","æ","ç","è","é","ê","ë","ì",
                "í","î","ï","ð","ñ","ò","ó","ô","õ","ö","ø","ù","ú",
                "û","ü","ý","þ">>

LowerChar(c) ==
    IF \E i \in DOMAIN UpperChars : UpperChars[i] = c
    THEN LowerChars[CHOOSE i \in DOMAIN UpperChars : UpperChars[i] = c]
    ELSE c

\* str.lower()
Lower(s) == [i \in 1..Len(s) |-> LowerChar(s[i])]

\* str.strip()
RECURSIVE LStrip(_)
LStrip(s) == IF s # <<>> /\ Head(s) \in Whitespace THEN LStrip(Tail(s)) ELSE s

RECURSIVE RStrip(_)
RStrip(s) ==
    IF s # <<>> /\ s[Len(s)] \in Whitespace
    THEN RStrip(SubSeq(s, 1, Len(s) - 1))
    ELSE s

Strip(s) == RStrip(LStrip(s))

\* The literals of main.py
ExitWords == { <<"e","x","i","t">>, <<"q","u","i","t">>,
               <<"g","o","o","d","b","y","e">> }
TriggerPhrase ==
    <<"s","t","a","r","t"," ","o","p","e","n"," ",
      "i","n","t","e","r","p","r","e","t","e","r">>
ExitInterpreterPhrase ==
    <<"e","x","i","t"," ","i","n","t","e","r","p","r","e","t","e","r">>

USER_NAME == "USER_NAME"

\* What the transcription service may return (before strip()).
T_exit == <<"e","x","i","t">>
T_Quit == <<"Q","u","i","t">>
T_Goodbye == <<" ","G","O","O","D","B","Y","E","\r","\n">>
T_Start ==
    <<"S","t","a","r","t"," ","O","p","e","n"," ",
      "I","n","t","e","r","p","r","e","t","e","r">>
T_start ==
    <<"s","t","a","r","t"," ","o","p","e","n"," ",
      "i","n","t","e","r","p","r","e","t","e","r">>
T_ExitInterpreter ==
    <<"E","x","i","t"," ","I","n","t","e","r","p","r","e","t","e","r">>
T_hello == <<"h","e","l","l","o">>
T_blank == <<" ","\f","\n">>

RawTranscripts ==
    { T_exit, T_Quit, T_Goodbye, T_Start, T_start, T_ExitInterpreter,
      T_hello, T_blank }

----------------------------------------------------------------------------
(* Texts: an f-string is the tuple of its segments *)

WelcomeText == <<"Hey ", USER_NAME, "! What's up!">>
ExitFarewellText == <<"Goodbye, ", USER_NAME, "! Have a great day.">>
InterruptFarewellText ==
    <<"Thank you for chatting with me. Goodbye, ", USER_NAME, "!">>
ErrorText(e) ==
    <<"An error occurred: ", e, ". I'm ready to assist with something else.">>
DisabledText ==
    <<"OpenAI functionalities are disabled or assistant is not initialized. Cannot analyze audio.">>
ThreadFailedText ==
    <<"Failed to create or retrieve a thread. Cannot process the request.">>
RunFailedText(status) == <<"Run failed with status: ", status>>
NoResponseText ==
    <<"I'm sorry, ", USER_NAME,
      ", I didn't receive a response. How else can I assist you?">>
ApologyText ==
    <<"I'm sorry, ", USER_NAME,
      ", I encountered an error while processing your request. How can I help you differently?">>
SessionAnnounceText ==
    <<"Entering Open Interpreter mode. Say 'Exit Interpreter' to end the session.">>
SessionExitText == <<"Exiting Open Interpreter mode.">>
SessionEndedText == <<"Open Interpreter session ended.">>
AgentErrorText(e) == <<"Error in Open Interpreter: ", e>>

\* What the remote services and the command agent may answer.
AssistantReply == <<"reply of the assistant">>
AgentReply == <<"reply of the command agent">>
RunStatuses ==
    { "queued", "in_progress", "requires_action", "completed",
      "failed", "cancelled", "expired" }
\* (Variant of line 91 that leaves out 'expired'.)
FailureStatuses_NoExpired == { "failed", "cancelled" }
FailureStatuses == { "failed", "cancelled", "expired" }
ConfiguredAssistant == <<"asst", "configured">>
CreatedAssistant == <<"asst", "created">>

\* How a blocking call ends.
CallOutcomes == {"ok", "raise", "interrupt"}

\* The lines of the console, by the statement that prints them.
P_RetrieveThreadError == "Error retrieving thread: ..."
P_NewThread == "New thread created with ID: ..."
P_CreateThreadError == "Error creating thread: ..."
P_UsingAssistant == "Using existing assistant with ID: ..."
P_RetrieveAssistantError == "Error retrieving assistant: ..."
P_NewAssistant == "New assistant created with ID: ..."
P_CreateAssistantError == "Error creating assistant: ..."
P_AnalyzeError == "Error in analyze_audio: ..."
P_SessionStart == "Starting Open Interpreter session."
P_NoInputSession ==
    "No input detected. Waiting for your command in Open Interpreter mode."
P_AgentResponse == "Open Interpreter: response"
P_AgentError == "Error in Open Interpreter: ..."
P_PlayError == "Error in play_audio: ..."
P_Listening == "Listening for speech..."
P_Processing == "Processing..."
P_Timeout == "No speech detected within the timeout period."
P_Transcribed == "Transcribed audio: ..."
P_NoTranscript == "No speech detected or transcription failed."
P_TranscribeTime == "Time to transcribe audio: ... seconds"
P_TranscribeError == "Error in transcribe_audio: ..."
P_Initializing == "Initializing Athena, USER_NAME's personal AI companion..."
P_UsingModel == "Using model: OPENAI_MODEL"
P_InitFailed == "Failed to initialize assistant. Exiting."
P_Welcome == "Athena: welcome_message"
P_NoInput == "No input detected. Waiting for your command."
P_Goodbye == "Athena: Goodbye, USER_NAME! Have a great day."
P_UserLine == "USER_NAME: user_prompt"
P_AthenaResponse == "Athena: response"
P_AthenaAnalysis == "Athena: analysis"
P_ThankYou == "Thank you for chatting with Athena. Goodbye, USER_NAME!"
P_ErrorOccurred ==
    "An error occurred: e. Athena is ready to assist with something else."

\* print() with several arguments writes them one by one: the unfinished
\* lines of lines 234, 238 and 242, and 127, when the first argument is
\* written and the value is not.
P_UserLinePart == "USER_NAME:"
P_AthenaPart == "Athena:"
P_AgentResponsePart == "Open Interpreter:"

\* No statement prints between a call and the next blocking call.
NoLine == "no line"

----------------------------------------------------------------------------
(* State *)

VARIABLES
    pc,              \* the statement main() or its callee is blocked at
    mode,            \* "command" while open_interpreter_session() is active
    outcome,         \* <<"running">>, <<"returned">> or <<"raised", kind, site>>
    exc,             \* the exception main()'s handler was entered with
    ASSISTANT_ID,    \* config.ASSISTANT_ID
    api_key,         \* whether client.api_key is non-empty
    assistant_id,    \* global assistant_id
    thread_id,       \* global thread_id
    user_prompt,     \* main(): user_prompt
    response,        \* main(): response / analysis
    user_input,      \* open_interpreter_session(): user_input
    oi_response,     \* open_interpreter_session(): response / error_message
    aa_thread,       \* analyze_audio(): its local thread_id
    run_status,      \* analyze_audio(): run_status.status
    messages,        \* analyze_audio(): messages.data, once listed
    spoken,          \* the last call of play_audio
    printed,         \* the last line printed
    calls,           \* the remote calls issued since the last capture began
    farewells,       \* calls of play_audio with a farewell text
    greeted,         \* play_audio(welcome_message) was called
    heard,           \* utterances captured so far
    sessionEntries,  \* calls of open_interpreter_session()
    tempfiles        \* temporary audio files left on disk

control == <<pc, mode, outcome, exc>>
config == <<ASSISTANT_ID, api_key>>
globals == <<assistant_id, thread_id>>
mainLocals == <<user_prompt, response>>
sessionLocals == <<user_input, oi_response>>
\* The locals of analyze_audio() keep the values of its last call until the
\* next call begins.
analyzeLocals == <<aa_thread, run_status, messages>>
speech == <<spoken, printed, calls, farewells>>
counters == <<heard, sessionEntries, tempfiles>>

vars == <<control, config, globals, mainLocals, sessionLocals, analyzeLocals,
          speech, greeted, counters>>

Unset == "unset"

Init ==
    /\ pc = "init"
    /\ mode = "conversation"
    /\ outcome = <<"running">>
    /\ exc = Unset
    /\ ASSISTANT_ID \in {None, ConfiguredAssistant}
    /\ api_key \in BOOLEAN
    /\ assistant_id = None
    /\ thread_id = None
    /\ user_prompt = None
    /\ response = None
    /\ user_input = None
    /\ oi_response = None
    /\ aa_thread = None
    /\ run_status = Unset
    /\ messages = [listed |-> FALSE, data |-> <<>>]
    /\ spoken = [text |-> None, voice |-> Unset, result |-> Unset]
    /\ printed = Unset
    /\ calls = {}
    /\ farewells = 0
    /\ greeted = FALSE
    /\ heard = 0
    /\ sessionEntries = 0
    /\ tempfiles = 0

----------------------------------------------------------------------------
(* Exceptions and speech *)

\* main(): the statements outside the range the handlers of lines 246 and
\* 250 protect: the statements before the loop, the head of the loop
\* (lines 223-224), the jumps of `continue` (line 228) and `break` (line
\* 232), the bodies of the two except clauses and the print of line 254.
Unprotected ==
    {"init", "welcome", "line_223", "line_228", "line_232",
     "farewell_interrupt", "speak_error", "line_254"}

\* main(): whether the try statement of lines 224-252 catches an exception
\* of this kind raised at site, a statement of main() or the blocking call
\* the program is in.
\* (Variant without the except Exception clause of line 250.)
MainCatches_OnlyInterrupt(site, kind) ==
    /\ site \notin Unprotected
    /\ kind = "KeyboardInterrupt"
MainCatches(site, kind) ==
    /\ site \notin Unprotected
    /\ kind \in {"KeyboardInterrupt", "Exception"}

\* An exception no callee catches reaches main() from site: the callees'
\* frames are gone, and main() handles it or it leaves main().
RaiseAt(site, kind, detail) ==
    /\ mode' = "conversation"
    /\ user_input' = None
    /\ oi_response' = None
    /\ IF MainCatches(site, kind)
       THEN /\ pc' = IF kind = "KeyboardInterrupt"
                     THEN "farewell_interrupt" ELSE "speak_error"
            /\ exc' = detail
            /\ outcome' = outcome
       ELSE /\ pc' = "done"
            /\ exc' = exc
            /\ outcome' = <<"raised", kind, site>>

Raise(kind, detail) ==
    /\ RaiseAt(pc, kind, detail)
    /\ UNCHANGED analyzeLocals

\* A KeyboardInterrupt delivered when line was the last line printed.
SigInt(line) ==
    /\ Raise("KeyboardInterrupt", "KeyboardInterrupt")
    /\ printed' = line

\* A KeyboardInterrupt delivered at a statement of main(), site, when line
\* was the last line printed.
SigIntAt(site, line) ==
    /\ RaiseAt(site, "KeyboardInterrupt", "KeyboardInterrupt")
    /\ printed' = line
    /\ UNCHANGED analyzeLocals

IsFarewell(text) == text \in {ExitFarewellText, InterruptFarewellText}

\* play_audio(text, voice): o is "ok", "raise" (synthesis or playback raised
\* an Exception, which play_audio prints and swallows), "interrupt" (a
\* KeyboardInterrupt during synthesis or playback, which play_audio lets
\* pass) or "entry" (a KeyboardInterrupt at lines 135-140, before the
\* synthesis is requested on line 142).  client is never None (line 13).
play_audio_swallows(o) == o = "raise"
play_audio(text, voice, o) ==
    /\ spoken' = [text |-> text, voice |-> voice,
                  result |-> IF o = "entry" THEN "interrupt" ELSE o]
    /\ calls' = IF o = "entry" THEN calls
                ELSE calls \cup {"audio.speech.create"}
    /\ farewells' = IF IsFarewell(text) THEN farewells + 1 ELSE farewells

PlayOutcomes == {"ok", "raise"}

\* The last line printed when play_audio has returned and the caller has
\* reached its next blocking call: before is the last line printed before
\* the call, after the line the caller prints after it.
PlayLine(o, before, after) ==
    IF after # NoLine THEN after
    ELSE IF play_audio_swallows(o) THEN P_PlayError
    ELSE before

\* The call's outcome and the last line printed when play_audio has
\* returned to its caller.
PlayReturns(before) == { <<"ok", before>>, <<"raise", P_PlayError>> }

\* How a KeyboardInterrupt can end the call and the statements after it:
\* at the entry of play_audio, during synthesis or playback, in the except
\* clause before line 151 has written, once play_audio has returned, or at
\* the caller's print after the call.  Each is the call's outcome and the
\* last line printed.
PlayInterrupts(before, after) ==
    { <<"entry", before>>, <<"interrupt", before>>, <<"raise", before>> }
        \cup PlayReturns(before)
        \cup (IF after # NoLine
              THEN { <<"ok", after>>, <<"raise", after>> } ELSE {})

----------------------------------------------------------------------------
(* Startup *)

\* (Variant of initialize_assistant() that does not try the configured
\* identifier.)
initialize_assistant_AlwaysCreates(cfg, retrieveOk, createOk) ==
    IF createOk THEN CreatedAssistant ELSE None
\* initialize_assistant(): the handle, given whether the two remote calls
\* succeed.
initialize_assistant(cfg, retrieveOk, createOk) ==
    IF cfg # None /\ retrieveOk THEN cfg
    ELSE IF createOk THEN CreatedAssistant
    ELSE None

\* main(), line 213: if not assistant_id
\* (Variant: the test is missing.)
init_failed_Never(id) == FALSE
init_failed(id) == id = None

\* initialize_assistant(): the remote calls it issues when retrieval ends
\* with r.
StartCalls(cfg, r) ==
    (IF cfg # None THEN {"assistants.retrieve"} ELSE {})
        \cup (IF cfg # None /\ r = "ok" THEN {} ELSE {"assistants.create"})

\* main(), lines 210-219, and initialize_assistant(): the states in which a
\* KeyboardInterrupt can end them, given the outcomes r and c of the
\* retrieval and the creation: the last line printed, the calls issued and
\* the global assistant_id.  Lines 46 and 59 assign the global after the
\* prints of lines 45 and 58, and it keeps its value up to the print of
\* line 219.
StartInterrupts(cfg, r, c) ==
    LET R == IF cfg # None THEN {"assistants.retrieve"} ELSE {}
        RC == R \cup {"assistants.create"}
        id == initialize_assistant(cfg, r = "ok", c = "ok")
        St(line, cs, a) == [line |-> line, calls |-> cs, id |-> a]
        \* the line printed before assistants.create() is called
        L0 == IF cfg # None THEN P_RetrieveAssistantError ELSE P_UsingModel
    IN  { St(printed, {}, None), St(P_Initializing, {}, None),
          St(P_UsingModel, {}, None) }
        \cup (IF cfg = None THEN {}
              ELSE { St(P_UsingModel, R, None) }
                   \cup CASE r = "interrupt" -> {}
                          [] r = "ok" ->
                               { St(P_UsingAssistant, R, None),
                                 St(P_UsingAssistant, R, id),
                                 St(P_Welcome, R, id) }
                          [] r = "raise" ->
                               { St(P_RetrieveAssistantError, R, None) })
        \cup (IF cfg # None /\ r # "raise" THEN {}
              ELSE { St(L0, RC, None) }
                   \cup CASE c = "interrupt" -> {}
                          [] c = "ok" ->
                               { St(P_NewAssistant, RC, None),
                                 St(P_NewAssistant, RC, id),
                                 St(P_Welcome, RC, id) }
                          [] c = "raise" ->
                               { St(P_CreateAssistantError, RC, None),
                                 St(P_InitFailed, RC, None) })

\* main(), lines 209-219
MainStart ==
    /\ pc = "init"
    /\ \E r \in CallOutcomes, c \in CallOutcomes :
        \/ /\ ASSISTANT_ID # None => r # "interrupt"
           /\ "assistants.create" \in StartCalls(ASSISTANT_ID, r) =>
                 c # "interrupt"
           /\ calls' = calls \cup StartCalls(ASSISTANT_ID, r)
           /\ assistant_id' =
                 initialize_assistant(ASSISTANT_ID, r = "ok", c = "ok")
           /\ IF init_failed(assistant_id')
              THEN /\ pc' = "done"
                   /\ outcome' = <<"returned">>
                   /\ printed' = P_InitFailed
              ELSE /\ pc' = "welcome"
                   /\ outcome' = outcome
                   /\ printed' = P_Welcome
           /\ UNCHANGED <<mode, exc, sessionLocals, analyzeLocals>>
        \/ \E st \in StartInterrupts(ASSISTANT_ID, r, c) :
              /\ calls' = calls \cup st.calls
              /\ assistant_id' = st.id
              /\ SigInt(st.line)
    /\ UNCHANGED <<config, thread_id, mainLocals, spoken, farewells, greeted,
                   counters>>

\* main(), lines 220-222
PlayWelcome ==
    /\ pc = "welcome"
    /\ \/ \E o \in PlayOutcomes :
              /\ play_audio(WelcomeText, "nova", o)
              /\ printed' = PlayLine(o, printed, P_Listening)
              /\ pc' = "listen"
              /\ UNCHANGED <<mode, outcome, exc, sessionLocals, analyzeLocals>>
       \/ \E i \in PlayInterrupts(printed, P_Listening) :
              /\ play_audio(WelcomeText, "nova", i[1])
              /\ SigInt(i[2])
    /\ greeted' = TRUE
    /\ UNCHANGED <<config, globals, mainLocals, counters>>

----------------------------------------------------------------------------
(* Capture: get_audio_input() and transcribe_audio() *)

\* get_audio_input() returns v to the loop that called it.
ReturnInput(v) ==
    /\ pc' = "got_input"
    /\ IF mode = "conversation"
       THEN /\ user_prompt' = v
            /\ user_input' = user_input
       ELSE /\ user_input' = v
            /\ user_prompt' = user_prompt
    /\ UNCHANGED <<mode, outcome, exc, oi_response, analyzeLocals>>

\* get_audio_input(), lines 154-167: open the microphone (line 155), print
\* line 156, adjust and listen, and leave the with statement of line 155,
\* which releases the microphone.  "open_error" is an Exception of line 155,
\* "mic_error" an Exception of line 157 or an Exception other than
\* WaitTimeoutError of line 159, "close_error" an Exception raised when the
\* with statement is left: after a timeout (line 167), after the audio was
\* captured (line 164), or by a KeyboardInterrupt delivered inside it, which
\* the Exception then replaces.
Listen ==
    /\ pc = "listen"
    /\ \E o \in {"open_error", "mic_error", "close_error", "timeout", "audio",
                  "interrupt", "loop_head"} :
        CASE o = "open_error" ->
               /\ Raise("Exception", "microphone")
               /\ calls' = {}
               /\ UNCHANGED <<user_prompt, printed, heard>>
          [] o = "mic_error" ->
               /\ Raise("Exception", "microphone")
               /\ printed' = P_Listening
               /\ calls' = {}
               /\ UNCHANGED <<user_prompt, heard>>
          [] o = "close_error" ->
               /\ Raise("Exception", "microphone")
               /\ calls' = {}
               /\ user_prompt' = user_prompt
               \* left at line 167, or by an interrupt at lines 156-167
               /\ \/ /\ printed' \in {printed, P_Listening, P_Timeout}
                     /\ heard' = heard
                  \* left once listen() has returned the audio: by an
                  \* interrupt before line 164 has written, or after it
                  \/ /\ heard < MaxUtterances
                     /\ printed' \in {P_Listening, P_Processing}
                     /\ heard' = heard + 1
          [] o = "timeout" ->
               /\ ReturnInput(None)
               /\ printed' = P_Timeout
               /\ calls' = {}
               /\ heard' = heard
          [] o = "audio" ->
               /\ heard < MaxUtterances
               /\ pc' = "transcribe"
               /\ printed' = P_Processing
               /\ calls' = {}
               /\ heard' = heard + 1
               /\ UNCHANGED <<mode, outcome, exc, user_prompt,
                              sessionLocals, analyzeLocals>>
          [] o = "interrupt" ->
               /\ calls' = {}
               /\ user_prompt' = user_prompt
               \* while the microphone is opened; at line 156 or during
               \* lines 157 and 159; at line 166 or 167
               /\ \/ /\ \E line \in {printed, P_Listening, P_Timeout} :
                           SigInt(line)
                     /\ heard' = heard
                  \* once listen() has returned the audio: before line 164
                  \* has written, and after it
                  \/ /\ heard < MaxUtterances
                     /\ \E line \in {P_Listening, P_Processing} : SigInt(line)
                     /\ heard' = heard + 1
          [] o = "loop_head" ->
               \* a KeyboardInterrupt before get_audio_input() is called:
               \* at lines 223-224, before main() has entered the try
               \* statement, or at line 225 or 116-117, inside it
               /\ \/ /\ mode = "conversation"
                     /\ SigIntAt("line_223", printed)
                  \/ SigInt(printed)
               /\ UNCHANGED <<user_prompt, calls, heard>>
    /\ UNCHANGED <<config, globals, response, spoken, farewells, greeted,
                   sessionEntries, tempfiles>>

\* transcribe_audio(): the text it returns for the service's answer raw.
transcribe_result(raw) == Strip(raw)

\* get_audio_input(), line 171: the line it prints for what
\* transcribe_audio() returned.
TranscriptLine(t) == IF t # <<>> THEN P_Transcribed ELSE P_NoTranscript

\* get_audio_input(), lines 169-182, and transcribe_audio().  The temporary
\* file is created on line 189 and unlinked on line 202, which only the
\* successful call reaches.  "early_raise" is an Exception before the
\* request of line 195: of line 189, when no file exists yet, or of lines
\* 190-193, when it does.
Transcribe ==
    /\ pc = "transcribe"
    /\ \E o \in CallOutcomes \cup {"before", "early_raise"},
          raw \in RawTranscripts :
        CASE o = "ok" ->
               /\ calls' = calls \cup {"audio.transcriptions.create"}
               /\ \/ /\ tempfiles' = tempfiles
                     /\ ReturnInput(transcribe_result(raw))
                     /\ printed' = TranscriptLine(transcribe_result(raw))
                  \* a KeyboardInterrupt at line 200, before the unlink
                  \/ /\ tempfiles' = tempfiles + 1
                     /\ SigInt(P_TranscribeTime)
                     /\ user_prompt' = user_prompt
                  \* a KeyboardInterrupt after the unlink of line 202 and
                  \* before line 172 or 175 has written; one at line 172 or
                  \* 175, or at the return that follows
                  \/ /\ tempfiles' = tempfiles
                     /\ \E line \in {P_TranscribeTime,
                                      TranscriptLine(transcribe_result(raw))} :
                           SigInt(line)
                     /\ user_prompt' = user_prompt
          [] o = "raise" ->
               /\ calls' = calls \cup {"audio.transcriptions.create"}
               /\ tempfiles' = tempfiles + 1
               /\ \/ /\ ReturnInput(None)
                     /\ printed' = P_NoTranscript
                  \* a KeyboardInterrupt in the except clause before line
                  \* 205 has written, at line 205 or at line 175
                  \/ /\ \E line \in {printed, P_TranscribeError,
                                      P_NoTranscript} :
                           SigInt(line)
                     /\ user_prompt' = user_prompt
          [] o = "interrupt" ->
               \* during the call, or once it has returned and before line
               \* 200 has written
               /\ calls' = calls \cup {"audio.transcriptions.create"}
               /\ tempfiles' = tempfiles + 1
               /\ SigInt(printed)
               /\ user_prompt' = user_prompt
          [] o = "early_raise" ->
               /\ calls' = calls
               /\ tempfiles' \in {tempfiles, tempfiles + 1}
               /\ \/ /\ ReturnInput(None)
                     /\ printed' = P_NoTranscript
                  \* a KeyboardInterrupt in the except clause before line
                  \* 205 has written, at line 205 or at line 175
                  \/ /\ \E line \in {printed, P_TranscribeError,
                                      P_NoTranscript} :
                           SigInt(line)
                     /\ user_prompt' = user_prompt
          [] o = "before" ->
               \* a KeyboardInterrupt before the call of line 195: before
               \* the file of line 189 exists, or after
               /\ calls' = calls
               /\ tempfiles' \in {tempfiles, tempfiles + 1}
               /\ SigInt(printed)
               /\ user_prompt' = user_prompt
    /\ UNCHANGED <<config, globals, response, spoken, farewells, greeted,
                   heard, sessionEntries>>

----------------------------------------------------------------------------
(* The main cycle: main(), lines 223-254 *)

\* (Variant of MainBranch that omits .lower().)
MainBranch_CaseSensitive(p) ==
    IF p = None THEN "none"
    ELSE IF p \in ExitWords THEN "exit"
    ELSE IF p = TriggerPhrase THEN "trigger"
    ELSE "query"
\* (Variant of MainBranch that omits the test of line 226.)
MainBranch_NoneIsQuery(p) ==
    IF Lower(p) \in ExitWords THEN "exit"
    ELSE IF Lower(p) = TriggerPhrase THEN "trigger"
    ELSE "query"
\* Lines 226-243: which branch an utterance takes.
MainBranch(p) ==
    IF p = None THEN "none"
    ELSE IF Lower(p) \in ExitWords THEN "exit"
    ELSE IF Lower(p) = TriggerPhrase THEN "trigger"
    ELSE "query"

\* analyze_audio(), lines 66-67
analyze_audio_enabled == api_key /\ assistant_id # None

\* The locals of a new call of analyze_audio().
AnalyzeEntered ==
    /\ aa_thread' = None
    /\ run_status' = Unset
    /\ messages' = [listed |-> FALSE, data |-> <<>>]

\* A KeyboardInterrupt that main() catches at a statement of lines 225-243,
\* when line was the last line printed.
DispatchInterrupt(line) ==
    /\ RaiseAt(pc, "KeyboardInterrupt", "KeyboardInterrupt")
    /\ printed' = line

\* Lines 226-237 and 241, 66-67, 242: from the captured utterance to the
\* next blocking call.  Each branch ends at that call or, when a
\* KeyboardInterrupt is delivered at or between its statements, in main()'s
\* handler or outside main().
MainDispatch ==
    /\ pc = "got_input"
    /\ mode = "conversation"
    /\ LET b == MainBranch(user_prompt) IN
        CASE b = "none" ->
               /\ \/ /\ pc' = "listen"
                     /\ printed' = P_NoInput
                     /\ UNCHANGED <<mode, outcome, exc, sessionLocals>>
                  \* at line 226, or at line 227
                  \/ \E line \in {printed, P_NoInput} : DispatchInterrupt(line)
                  \* at the `continue` of line 228
                  \/ /\ RaiseAt("line_228", "KeyboardInterrupt",
                                "KeyboardInterrupt")
                     /\ printed' = P_NoInput
               /\ UNCHANGED <<response, sessionEntries, analyzeLocals>>
          [] b = "exit" ->
               /\ \/ /\ pc' = "farewell_exit"
                     /\ printed' = P_Goodbye
                     /\ UNCHANGED <<mode, outcome, exc, sessionLocals>>
                  \* at line 226 or 229, or at line 230
                  \/ \E line \in {printed, P_Goodbye} : DispatchInterrupt(line)
               /\ UNCHANGED <<response, sessionEntries, analyzeLocals>>
          [] b = "trigger" ->
               /\ \/ /\ pc' = "oi_announce"
                     /\ mode' = "command"
                     /\ sessionEntries' = sessionEntries + 1
                     /\ printed' = P_SessionStart
                     /\ UNCHANGED <<outcome, exc, sessionLocals>>
                  \* at lines 226-236, before the session is entered
                  \/ /\ \E line \in {printed, P_UserLinePart, P_UserLine} :
                           DispatchInterrupt(line)
                     /\ sessionEntries' = sessionEntries
                  \* inside the session, before line 113 has written and
                  \* after it
                  \/ /\ \E line \in {P_UserLine, P_SessionStart} :
                           DispatchInterrupt(line)
                     /\ sessionEntries' = sessionEntries + 1
               /\ UNCHANGED <<response, analyzeLocals>>
          [] b = "query" ->
               /\ \/ /\ analyze_audio_enabled
                     /\ pc' = "aa_get_thread"
                     /\ response' = response
                     /\ printed' = P_UserLine
                     /\ AnalyzeEntered
                     /\ UNCHANGED <<mode, outcome, exc, sessionLocals>>
                  \/ /\ ~analyze_audio_enabled
                     /\ pc' = "speak_response"
                     /\ response' = DisabledText
                     /\ printed' = P_AthenaAnalysis
                     /\ AnalyzeEntered
                     /\ UNCHANGED <<mode, outcome, exc, sessionLocals>>
                  \* at lines 226-236, before analyze_audio() is called
                  \/ /\ \E line \in {printed, P_UserLinePart, P_UserLine} :
                           DispatchInterrupt(line)
                     /\ UNCHANGED <<response, analyzeLocals>>
                  \* inside analyze_audio(), before its first call or its
                  \* return of line 67
                  \/ /\ DispatchInterrupt(P_UserLine)
                     /\ response' = response
                     /\ AnalyzeEntered
                  \* once line 241 has assigned analysis: before line 242
                  \* has written, inside it, and after it
                  \/ /\ ~analyze_audio_enabled
                     /\ \E line \in {P_UserLine, P_AthenaPart,
                                     P_AthenaAnalysis} :
                           DispatchInterrupt(line)
                     /\ response' = DisabledText
                     /\ AnalyzeEntered
               /\ sessionEntries' = sessionEntries
    /\ UNCHANGED <<config, globals, user_prompt, spoken, calls, farewells,
                   greeted, heard, tempfiles>>

\* Lines 231-232
SpeakFarewell ==
    /\ pc = "farewell_exit"
    /\ \/ \E o \in PlayOutcomes :
              /\ play_audio(ExitFarewellText, "nova", o)
              /\ printed' = PlayLine(o, printed, NoLine)
              /\ pc' = "done"
              /\ outcome' = <<"returned">>
              /\ UNCHANGED <<mode, exc, sessionLocals, analyzeLocals>>
       \/ \E i \in PlayInterrupts(printed, NoLine) :
              /\ play_audio(ExitFarewellText, "nova", i[1])
              /\ SigInt(i[2])
       \* a KeyboardInterrupt at the `break` of line 232
       \/ \E i \in PlayReturns(printed) :
              /\ play_audio(ExitFarewellText, "nova", i[1])
              /\ SigIntAt("line_232", i[2])
    /\ UNCHANGED <<config, globals, mainLocals, greeted, counters>>

\* Lines 246-249
InterruptFarewell ==
    /\ pc = "farewell_interrupt"
    /\ \/ \E o \in PlayOutcomes :
              /\ play_audio(InterruptFarewellText, "nova", o)
              /\ printed' = PlayLine(o, P_ThankYou, NoLine)
              /\ pc' = "done"
              /\ outcome' = <<"returned">>
              /\ UNCHANGED <<mode, exc, sessionLocals, analyzeLocals>>
       \/ \E i \in PlayInterrupts(P_ThankYou, NoLine) :
              /\ play_audio(InterruptFarewellText, "nova", i[1])
              /\ SigInt(i[2])
       \* a KeyboardInterrupt before line 247 has written, or at line 247,
       \* before play_audio is called
       \/ /\ \E line \in {printed, P_ThankYou} : SigInt(line)
          /\ UNCHANGED <<spoken, calls, farewells>>
    /\ UNCHANGED <<config, globals, mainLocals, greeted, counters>>

\* Lines 250-254
SpeakError ==
    /\ pc = "speak_error"
    /\ \/ \E o \in PlayOutcomes :
              /\ play_audio(ErrorText(exc), "nova", o)
              /\ printed' = PlayLine(o, P_ErrorOccurred, P_Listening)
              /\ pc' = "listen"
              /\ UNCHANGED <<mode, outcome, exc, sessionLocals, analyzeLocals>>
       \/ \E i \in PlayInterrupts(P_ErrorOccurred, P_Listening) :
              /\ play_audio(ErrorText(exc), "nova", i[1])
              /\ SigInt(i[2])
       \* a KeyboardInterrupt before line 251 has written, or at line 251,
       \* before play_audio is called
       \/ /\ \E line \in {printed, P_ErrorOccurred} : SigInt(line)
          /\ UNCHANGED <<spoken, calls, farewells>>
    /\ UNCHANGED <<config, globals, mainLocals, greeted, counters>>

\* (Variant without the time.sleep(1) of line 245.)
after_response_NoPause == "listen"
\* Line 245: the statement that follows play_audio(response)
after_response == "pause"

\* Lines 239 and 243: play_audio(response), play_audio(analysis)
SpeakResponse ==
    /\ pc = "speak_response"
    /\ \/ \E o \in PlayOutcomes :
              /\ play_audio(response, "nova", o)
              /\ printed' = PlayLine(o, printed, NoLine)
              /\ pc' = after_response
              /\ UNCHANGED <<mode, outcome, exc, sessionLocals, analyzeLocals>>
       \/ \E i \in PlayInterrupts(printed, NoLine) :
              /\ play_audio(response, "nova", i[1])
              /\ SigInt(i[2])
    /\ UNCHANGED <<config, globals, mainLocals, greeted, counters>>

\* Lines 245 and 254: time.sleep(1), print, then the next iteration
Pause ==
    /\ pc = "pause"
    /\ \/ /\ pc' = "listen"
          /\ printed' = P_Listening
          /\ UNCHANGED <<mode, outcome, exc, sessionLocals, analyzeLocals>>
       \* a KeyboardInterrupt during the sleep
       \/ SigInt(printed)
       \* a KeyboardInterrupt at line 254, after the try statement: before
       \* the line is written, or after
       \/ \E line \in {printed, P_Listening} : SigIntAt("line_254", line)
    /\ UNCHANGED <<config, globals, mainLocals, spoken, calls, farewells,
                   greeted, counters>>

----------------------------------------------------------------------------
(* The conversation query: analyze_audio(), lines 69-110 *)

NewThread(tid) == <<"thread", IF tid = None THEN 1 ELSE tid[2] + 1>>

\* (Variant of get_or_create_thread() that does not try the cached handle.)
get_or_create_thread_AlwaysNew(tid, retrieveOk, createOk) ==
    IF createOk THEN <<"thread", IF tid = None THEN 1 ELSE tid[2] + 1>>
    ELSE None
\* get_or_create_thread(): what it returns, given whether the two remote
\* calls succeed.
get_or_create_thread(tid, retrieveOk, createOk) ==
    IF tid # None /\ retrieveOk THEN tid
    ELSE IF createOk THEN NewThread(tid)
    ELSE None

\* get_or_create_thread(): whether threads.create() is called.
creates_thread(tid, retrieveOk) == ~(tid # None /\ retrieveOk)

\* analyze_audio() returns text to line 241 and line 242 prints it, before
\* being the last line printed inside analyze_audio().  A KeyboardInterrupt
\* reaches main()'s handler: at the return, before line 241 has assigned;
\* after the assignment, before line 242 has written; inside line 242; and
\* after it.
AnalyzeReturn(text, before) ==
    \/ /\ response' = text
       /\ printed' = P_AthenaAnalysis
       /\ pc' = "speak_response"
       /\ UNCHANGED <<mode, outcome, exc, sessionLocals>>
    \/ /\ response' = response
       /\ DispatchInterrupt(before)
    \/ /\ response' = text
       /\ \E line \in {before, P_AthenaPart, P_AthenaAnalysis} :
             DispatchInterrupt(line)

\* A KeyboardInterrupt in a call of analyze_audio(): except Exception lets
\* it pass.
AnalyzeInterrupted ==
    /\ Raise("KeyboardInterrupt", "KeyboardInterrupt")
    /\ UNCHANGED <<response, printed>>

\* (Variant without the except clause of lines 108-110.)
analyze_catches_Nothing(kind) == FALSE
\* Line 108: except Exception
analyze_catches(kind) == kind = "Exception"

\* Lines 108-110: a remote call of analyze_audio() raised an Exception.
AnalyzeRaised ==
    IF analyze_catches("Exception")
    THEN \/ AnalyzeReturn(ApologyText, P_AnalyzeError)
         \* a KeyboardInterrupt in the except clause before line 109 has
         \* written
         \/ /\ DispatchInterrupt(printed)
            /\ response' = response
    ELSE /\ RaiseAt(pc, "Exception", "remote call")
         /\ UNCHANGED <<response, printed>>

\* Line 71: if not thread_id
\* (Variant: the test is missing.)
no_thread_Never(t) == FALSE
no_thread(t) == t = None

\* get_or_create_thread(): the remote calls it issues when retrieval ends
\* with r.
ThreadCalls(tid, r) ==
    (IF tid # None THEN {"threads.retrieve"} ELSE {})
        \cup (IF creates_thread(tid, r = "ok") THEN {"threads.create"} ELSE {})

\* Lines 70-72 and get_or_create_thread(): the states in which a
\* KeyboardInterrupt can end them, given the outcomes r and c of the
\* retrieval and the creation: the last line printed, the calls issued, the
\* global thread_id and the local thread_id of analyze_audio().  Line 33
\* assigns the global before the print of line 34; line 70 assigns the local
\* when get_or_create_thread() has returned.
ThreadInterrupts(tid, r, c) ==
    LET R == IF tid # None THEN {"threads.retrieve"} ELSE {}
        RC == R \cup {"threads.create"}
        new == get_or_create_thread(tid, r = "ok", TRUE)
        St(line, cs, t, l) ==
            [line |-> line, calls |-> cs, tid |-> t, local |-> l]
        \* the line printed before threads.create() is called
        L0 == IF tid # None THEN P_RetrieveThreadError ELSE printed
    IN  { St(printed, {}, tid, None) }
        \cup (IF tid = None THEN {}
              ELSE { St(printed, R, tid, None) }
                   \cup CASE r = "interrupt" -> {}
                          [] r = "raise" ->
                               { St(P_RetrieveThreadError, R, tid, None) }
                          [] r = "ok" ->
                               (IF creates_thread(tid, TRUE) THEN {}
                                ELSE { St(printed, R, tid, tid) }))
        \cup (IF ~creates_thread(tid, r = "ok") \/ (tid # None /\ r = "interrupt")
              THEN {}
              ELSE { St(L0, RC, tid, None) }
                   \cup CASE c = "interrupt" -> {}
                          [] c = "ok" ->
                               { St(L0, RC, new, None),
                                 St(P_NewThread, RC, new, None),
                                 St(P_NewThread, RC, new, new) }
                          [] c = "raise" ->
                               { St(P_CreateThreadError, RC, tid, None) })

\* Lines 70-72
GetOrCreateThread ==
    /\ pc = "aa_get_thread"
    /\ \E r \in CallOutcomes, c \in CallOutcomes :
        \/ /\ thread_id # None => r # "interrupt"
           /\ creates_thread(thread_id, r = "ok") => c # "interrupt"
           /\ calls' = calls \cup ThreadCalls(thread_id, r)
           /\ LET t == get_or_create_thread(thread_id, r = "ok", c = "ok") IN
                /\ thread_id' = IF t # None THEN t ELSE thread_id
                /\ aa_thread' = t
                /\ UNCHANGED <<run_status, messages>>
                /\ IF no_thread(t)
                   THEN AnalyzeReturn(ThreadFailedText, P_CreateThreadError)
                   ELSE /\ pc' = "aa_msg_create"
                        /\ printed' =
                              IF creates_thread(thread_id, r = "ok")
                              THEN P_NewThread ELSE printed
                        /\ UNCHANGED <<mode, outcome, exc, sessionLocals,
                                       response>>
        \/ \E st \in ThreadInterrupts(thread_id, r, c) :
              /\ calls' = calls \cup st.calls
              /\ thread_id' = st.tid
              /\ aa_thread' = st.local
              /\ DispatchInterrupt(st.line)
              /\ UNCHANGED <<response, run_status, messages>>
    /\ UNCHANGED <<config, assistant_id, user_prompt, spoken, farewells,
                   greeted, counters>>

\* Lines 74-78
MessagesCreate ==
    /\ pc = "aa_msg_create"
    /\ \E o \in CallOutcomes :
        CASE o = "ok" ->
               /\ pc' = "aa_run_create"
               /\ UNCHANGED <<mode, outcome, exc, sessionLocals, response,
                              printed>>
          [] o = "raise" -> AnalyzeRaised
          [] o = "interrupt" -> AnalyzeInterrupted
    /\ calls' = calls \cup {"messages.create"}
    /\ UNCHANGED <<config, globals, user_prompt, analyzeLocals, spoken,
                   farewells, greeted, counters>>

\* Lines 80-85
RunsCreate ==
    /\ pc = "aa_run_create"
    /\ \E o \in CallOutcomes :
        CASE o = "ok" ->
               /\ pc' = "aa_poll"
               /\ UNCHANGED <<mode, outcome, exc, sessionLocals, response,
                              printed>>
          [] o = "raise" -> AnalyzeRaised
          [] o = "interrupt" -> AnalyzeInterrupted
    /\ calls' = calls \cup {"runs.create"}
    /\ UNCHANGED <<config, globals, user_prompt, analyzeLocals, spoken,
                   farewells, greeted, counters>>

\* (Variant of PollBranch that waits only while the run is queued or in
\* progress.)
PollBranch_UnknownBreaks(status) ==
    IF status \in {"queued", "in_progress"} THEN "sleep"
    ELSE IF status \in FailureStatuses THEN "return"
    ELSE "break"
\* Lines 89-93: what the loop does with the status a poll observed.
PollBranch(status) ==
    IF status = "completed" THEN "break"
    ELSE IF status \in FailureStatuses THEN "return"
    ELSE "sleep"

\* Lines 87-93: one iteration of the loop, time.sleep(1) included.
PollRun ==
    /\ pc = "aa_poll"
    /\ \E o \in CallOutcomes, status \in RunStatuses :
        CASE o = "ok" ->
               /\ run_status' = status
               /\ IF PollBranch(status) = "return"
                  THEN AnalyzeReturn(RunFailedText(status), printed)
                  ELSE /\ UNCHANGED <<response, printed>>
                       /\ \/ /\ pc' = IF PollBranch(status) = "break"
                                       THEN "aa_list" ELSE "aa_poll"
                             /\ UNCHANGED <<mode, outcome, exc, sessionLocals>>
                          \* a KeyboardInterrupt at the tests of lines 89-91
                          \* or during the sleep of line 93
                          \/ RaiseAt(pc, "KeyboardInterrupt",
                                     "KeyboardInterrupt")
          [] o = "raise" ->
               /\ AnalyzeRaised
               /\ run_status' = run_status
          [] o = "interrupt" -> AnalyzeInterrupted
    /\ calls' = calls \cup {"runs.retrieve"}
    /\ UNCHANGED <<config, globals, user_prompt, aa_thread, messages, spoken,
                   farewells, greeted, counters>>

\* What messages.list(order="desc", limit=1) may return as messages.data.
TextPart == [type |-> "text", value |-> AssistantReply]
UserPart == [type |-> "text", value |-> <<"text of the user's message">>]
ImagePart == [type |-> "image_file", value |-> None]
Listings ==
    { <<>>,
      << [role |-> "user", content |-> <<UserPart>>] >>,
      << [role |-> "assistant", content |-> <<TextPart>>] >>,
      << [role |-> "assistant", content |-> <<ImagePart>>] >>,
      << [role |-> "assistant", content |-> <<>>] >> }

\* (Variant of lines 101-103 without the test of the role.)
is_assistant_message_AnyRole(data) == data # <<>>
\* Lines 101-103
is_assistant_message(data) == data # <<>> /\ data[1].role = "assistant"

\* Line 104: latest_message.content[0].text.value raises when the message
\* has no content or its first part is not text.
analyze_reply_raises(data) ==
    /\ is_assistant_message(data)
    /\ ~(data[1].content # <<>> /\ data[1].content[1].type = "text")

\* Lines 101-106: the text returned for messages.data.
analyze_reply(data) ==
    IF is_assistant_message(data)
    THEN data[1].content[1].value
    ELSE NoResponseText

\* Lines 95-106
MessagesList ==
    /\ pc = "aa_list"
    /\ \E o \in CallOutcomes, data \in Listings :
        CASE o = "ok" ->
               /\ messages' = [listed |-> TRUE, data |-> data]
               /\ IF analyze_reply_raises(data)
                  THEN AnalyzeRaised
                  ELSE AnalyzeReturn(analyze_reply(data), printed)
          [] o = "raise" ->
               /\ AnalyzeRaised
               /\ messages' = messages
          [] o = "interrupt" -> AnalyzeInterrupted
    /\ calls' = calls \cup {"messages.list"}
    /\ UNCHANGED <<config, globals, user_prompt, aa_thread, run_status, spoken,
                   farewells, greeted, counters>>

----------------------------------------------------------------------------
(* The command-execution session: open_interpreter_session() *)

\* Line 114
OIAnnounce ==
    /\ pc = "oi_announce"
    /\ \/ \E o \in PlayOutcomes :
              /\ play_audio(SessionAnnounceText, "onyx", o)
              /\ printed' = PlayLine(o, printed, NoLine)
              /\ pc' = "listen"
              /\ UNCHANGED <<mode, outcome, exc, sessionLocals, analyzeLocals>>
       \/ \E i \in PlayInterrupts(printed, NoLine) :
              /\ play_audio(SessionAnnounceText, "onyx", i[1])
              /\ SigInt(i[2])
    /\ UNCHANGED <<config, globals, mainLocals, greeted, counters>>

\* (Variant of SessionBranch in which a capture without input ends the
\* session.)
SessionBranch_TimeoutExits(u) ==
    IF u = None \/ Lower(u) = ExitInterpreterPhrase THEN "exit"
    ELSE "command"
\* (Variant of SessionBranch that also ends the session on main()'s exit
\* words.)
SessionBranch_ExitWords(u) ==
    IF u = None THEN "none"
    ELSE IF Lower(u) \in ExitWords \cup {ExitInterpreterPhrase} THEN "exit"
    ELSE "command"
\* Lines 118-126: which branch an utterance takes inside the session.
SessionBranch(u) ==
    IF u = None THEN "none"
    ELSE IF Lower(u) = ExitInterpreterPhrase THEN "exit"
    ELSE "command"

\* Lines 118-121 and 125
SessionDispatch ==
    /\ pc = "got_input"
    /\ mode = "command"
    /\ LET b == SessionBranch(user_input) IN
        CASE b = "none" ->
               \/ /\ pc' = "listen"
                  /\ printed' = P_NoInputSession
                  /\ UNCHANGED <<mode, outcome, exc, sessionLocals,
                                 analyzeLocals>>
               \* a KeyboardInterrupt at line 118, or at line 119
               \/ \E line \in {printed, P_NoInputSession} : SigInt(line)
          [] b = "exit" ->
               \/ /\ pc' = "oi_exit_speak"
                  /\ printed' = printed
                  /\ UNCHANGED <<mode, outcome, exc, sessionLocals,
                                 analyzeLocals>>
               \* a KeyboardInterrupt at line 118 or 121
               \/ SigInt(printed)
          [] b = "command" ->
               \/ /\ pc' = "oi_chat"
                  /\ printed' = printed
                  /\ UNCHANGED <<mode, outcome, exc, sessionLocals,
                                 analyzeLocals>>
               \* a KeyboardInterrupt at lines 118-125
               \/ SigInt(printed)
    /\ UNCHANGED <<config, globals, mainLocals, spoken, calls, farewells,
                   greeted, counters>>

\* (Variant without the except clause of lines 129-132.)
session_catches_Nothing(kind) == FALSE
\* Line 129: except Exception
session_catches(kind) == kind = "Exception"

\* Lines 125-127 and 129-131: interpreter.chat(user_input)
OIChat ==
    /\ pc = "oi_chat"
    /\ \E o \in CallOutcomes :
        CASE o = "ok" ->
               \/ /\ pc' = "oi_speak"
                  /\ oi_response' = AgentReply
                  /\ printed' = P_AgentResponse
                  /\ UNCHANGED <<mode, outcome, exc, user_input, analyzeLocals>>
               \* a KeyboardInterrupt inside line 127, or after it
               \/ \E line \in {P_AgentResponsePart, P_AgentResponse} :
                     SigInt(line)
          [] o = "raise" ->
               IF session_catches("Exception")
               THEN \/ /\ pc' = "oi_speak"
                       /\ oi_response' = AgentErrorText("agent failure")
                       /\ printed' = P_AgentError
                       /\ UNCHANGED <<mode, outcome, exc, user_input,
                                      analyzeLocals>>
                    \* a KeyboardInterrupt at line 131
                    \/ SigInt(P_AgentError)
               ELSE /\ Raise("Exception", "agent failure")
                    /\ printed' = printed
          [] o = "interrupt" -> SigInt(printed)
    /\ calls' = calls \cup {"interpreter.chat"}
    /\ UNCHANGED <<config, globals, mainLocals, spoken, farewells, greeted,
                   counters>>

\* Lines 128 and 132: play_audio(response / error_message, voice="onyx"),
\* then the next iteration of the session's loop
OISpeak ==
    /\ pc = "oi_speak"
    /\ \/ \E o \in PlayOutcomes :
              /\ play_audio(oi_response, "onyx", o)
              /\ printed' = PlayLine(o, printed, NoLine)
              /\ pc' = "listen"
              /\ UNCHANGED <<mode, outcome, exc, sessionLocals, analyzeLocals>>
       \/ \E i \in PlayInterrupts(printed, NoLine) :
              /\ play_audio(oi_response, "onyx", i[1])
              /\ SigInt(i[2])
    /\ UNCHANGED <<config, globals, mainLocals, greeted, counters>>

\* (Variant in which line 123 does not leave the loop.)
session_exit_returns_Never == FALSE
\* Line 123: return
session_exit_returns == TRUE

\* Lines 122-123 and 237-238: announce the end, return to main(), print
OIExitSpeak ==
    /\ pc = "oi_exit_speak"
    /\ \/ \E o \in PlayOutcomes :
              /\ play_audio(SessionExitText, "onyx", o)
              /\ IF session_exit_returns
                 THEN /\ pc' = "speak_response"
                      /\ mode' = "conversation"
                      /\ response' = SessionEndedText
                      /\ printed' = PlayLine(o, printed, P_AthenaResponse)
                      /\ user_input' = None
                      /\ oi_response' = None
                      /\ UNCHANGED <<outcome, exc, analyzeLocals>>
                 ELSE /\ pc' = "listen"
                      /\ printed' = PlayLine(o, printed, NoLine)
                      /\ UNCHANGED <<mode, response, sessionLocals, outcome,
                                     exc, analyzeLocals>>
       \* a KeyboardInterrupt before line 237 has assigned response
       \/ \E i \in PlayInterrupts(printed, NoLine) :
              /\ play_audio(SessionExitText, "onyx", i[1])
              /\ SigInt(i[2])
              /\ response' = response
       \* after the assignment: before line 238 has written, inside it, and
       \* after it
       \/ \E i \in PlayReturns(printed) :
              /\ play_audio(SessionExitText, "onyx", i[1])
              /\ \E line \in {i[2], P_AthenaPart, P_AthenaResponse} :
                    SigInt(line)
              /\ response' = SessionEndedText
    /\ UNCHANGED <<config, globals, user_prompt, greeted, counters>>

----------------------------------------------------------------------------

Next ==
    \/ MainStart
    \/ PlayWelcome
    \/ Listen
    \/ Transcribe
    \/ MainDispatch
    \/ SpeakFarewell
    \/ InterruptFarewell
    \/ SpeakError
    \/ SpeakResponse
    \/ Pause
    \/ GetOrCreateThread
    \/ MessagesCreate
    \/ RunsCreate
    \/ PollRun
    \/ MessagesList
    \/ OIAnnounce
    \/ SessionDispatch
    \/ OIChat
    \/ OISpeak
    \/ OIExitSpeak

Spec == Init /\ [][Next]_vars

TypeOK ==
    /\ pc \in {"init", "welcome", "listen", "transcribe", "got_input",
               "farewell_exit", "farewell_interrupt", "speak_error",
               "speak_response", "pause", "aa_get_thread", "aa_msg_create",
               "aa_run_create", "aa_poll", "aa_list", "oi_announce", "oi_chat",
               "oi_speak", "oi_exit_speak", "done"}
    /\ mode \in {"conversation", "command"}
    /\ farewells \in 0..2
    /\ heard \in 0..MaxUtterances
    /\ sessionEntries \in 0..MaxUtterances
    /\ tempfiles \in 0..MaxUtterances

----------------------------------------------------------------------------
(* Properties *)

\* Case-insensitive equality of two strings, stated without lower().
EqualsIgnoringCase(a, b) ==
    /\ Len(a) = Len(b)
    /\ \A i \in 1..Len(a) :
        \/ a[i] = b[i]
        \/ \E k \in DOMAIN UpperChars :
              {a[i], b[i]} = {UpperChars[k], LowerChars[k]}

IsExitWord(u) ==
    \/ EqualsIgnoringCase(u, <<"e","x","i","t">>)
    \/ EqualsIgnoringCase(u, <<"q","u","i","t">>)
    \/ EqualsIgnoringCase(u, <<"g","o","o","d","b","y","e">>)

IsTrigger(u) == EqualsIgnoringCase(u, T_start)

IsSessionExit(u) == EqualsIgnoringCase(u, T_ExitInterpreter)

Names(text, name) == \E i \in DOMAIN text : text[i] = name

\* A step that a KeyboardInterrupt ended.
Interrupted ==
    \/ pc' = "farewell_interrupt"
    \/ pc' = "done" /\ outcome'[1] = "raised"

MainHeard == pc = "got_input" /\ mode = "conversation"
SessionHeard == pc = "got_input" /\ mode = "command"

\* C1: once an exit word was heard in the main cycle, main() has returned
\* normally when it ends, and exactly one farewell naming USER_NAME was
\* spoken over the whole run.
C1_ExitWordOneFarewell ==
    (pc = "done" /\ IsExitWord(user_prompt)) =>
        /\ outcome = <<"returned">>
        /\ farewells = 1
        /\ Names(spoken.text, USER_NAME)

\* C2: an utterance of the main cycle that equals the trigger phrase,
\* ignoring case, enters open_interpreter_session() exactly once unless an
\* interrupt is delivered before the session is entered, and no other step
\* enters it.
C2_TriggerEntersSessionOnce ==
    [][ IF MainHeard /\ IsTrigger(user_prompt)
        THEN \/ /\ sessionEntries' = sessionEntries + 1
                /\ pc' = "oi_announce"
                /\ mode' = "command"
             \/ /\ Interrupted
                /\ sessionEntries' \in {sessionEntries, sessionEntries + 1}
        ELSE /\ sessionEntries' = sessionEntries
             /\ pc' # "oi_announce"
             /\ (mode' = "command" => mode = "command") ]_vars

C2_Witness ==
    /\ pc = "oi_announce"
    /\ user_prompt = T_Start
    /\ sessionEntries = 2

\* C3: "exit interpreter" heard in the main cycle is handled as a
\* conversation query and does not end main(); an exit word heard inside the
\* session is forwarded to the command agent, and neither the session nor
\* main() ends.
C3_ExitVocabulariesDisjoint ==
    [][ /\ (MainHeard /\ IsSessionExit(user_prompt) /\ ~Interrupted) =>
              /\ pc' \in {"aa_get_thread", "speak_response"}
              /\ pc' = "speak_response" => response' = DisabledText
              /\ mode' = "conversation"
              /\ outcome' = <<"running">>
        /\ (SessionHeard /\ IsExitWord(user_input) /\ ~Interrupted) =>
              /\ pc' = "oi_chat"
              /\ mode' = "command"
              /\ outcome' = <<"running">>
        /\ (pc = "oi_chat" /\ IsExitWord(user_input)) =>
              /\ "interpreter.chat" \in calls'
              /\ farewells' = farewells
              /\ ~Interrupted => pc' = "oi_speak" /\ mode' = "command" ]_vars

C3_Witness ==
    /\ pc = "oi_speak"
    /\ mode = "command"
    /\ user_input = T_Quit
    /\ "interpreter.chat" \in calls

C3_WitnessMain ==
    /\ pc = "aa_get_thread"
    /\ user_prompt = T_ExitInterpreter


SubmitCalls == {"messages.create", "runs.create", "runs.retrieve", "messages.list"}

\* C4: when get_or_create_thread() returns no handle, the turn issues no
\* message append, run creation, run poll or message listing, analyze_audio
\* returns the failure text, the text is spoken and, unless an interrupt is
\* delivered, the main cycle goes on to the next capture.
C4_NoThreadNoSubmit ==
    /\ []( (pc \in {"speak_response", "pause"} /\ response = ThreadFailedText) =>
              /\ aa_thread = None
              /\ calls \cap SubmitCalls = {} )
    /\ [][ /\ (pc = "aa_get_thread" /\ ~Interrupted /\ aa_thread' = None) =>
                 /\ pc' = "speak_response"
                 /\ response' = ThreadFailedText
                 /\ calls' \cap SubmitCalls = {}
           /\ (pc = "speak_response" /\ response = ThreadFailedText
                 /\ ~Interrupted) =>
                 /\ spoken'.text = ThreadFailedText
                 /\ pc' = "pause"
           /\ (pc = "pause" /\ ~Interrupted) => pc' = "listen" ]_vars

C4_Witness ==
    /\ pc = "pause"
    /\ response = ThreadFailedText
    /\ spoken.text = ThreadFailedText
    /\ thread_id # None
    /\ "threads.create" \in calls

\* C5: a poll that observes failed, cancelled or expired is the last poll:
\* analyze_audio returns a failure string that contains that status and no
\* other, and the thread's messages are not fetched.
C5_FailureStatusReturned ==
    [][ (pc = "aa_poll" /\ ~Interrupted
           /\ run_status' \in {"failed", "cancelled", "expired"}) =>
           /\ pc' = "speak_response"
           /\ Names(response', run_status')
           /\ \A st \in RunStatuses \ {run_status'} : ~Names(response', st)
           /\ "messages.list" \notin calls'
           /\ ~messages'.listed ]_vars

C5_Witness ==
    /\ pc = "speak_response"
    /\ run_status = "expired"
    /\ response = <<"Run failed with status: ", "expired">>

\* C6: when the listing after a completed run returns, analyze_audio
\* returns the no-response text naming USER_NAME if there is no message or
\* the newest message is not the assistant's, and it returns a message's
\* text only if the newest message's role is "assistant".
C6_FallbackUnlessAssistant ==
    [][ (pc = "aa_list" /\ messages'.listed /\ ~Interrupted) =>
           LET data == messages'.data IN
           /\ run_status = "completed"
           /\ pc' = "speak_response"
           /\ (data = <<>> \/ data[1].role # "assistant") =>
                 /\ response' = NoResponseText
                 /\ Names(response', USER_NAME)
           /\ (\E m \in Listings : m # <<>> /\ m[1].content # <<>>
                    /\ response' = m[1].content[1].value) =>
                 /\ data # <<>>
                 /\ data[1].role = "assistant"
                 /\ response' = data[1].content[1].value ]_vars

C6_Witness ==
    /\ pc = "speak_response"
    /\ messages.listed
    /\ messages.data # <<>>
    /\ messages.data[1].role = "user"
    /\ response = NoResponseText

C6_WitnessReply ==
    /\ pc = "speak_response"
    /\ messages.listed
    /\ messages.data # <<>>
    /\ messages.data[1].role = "assistant"
    /\ response = AssistantReply

\* C7 as stated: a capture that times out in the main cycle issues no
\* remote call in its turn, leaves assistant_id, thread_id and the mode
\* unchanged, and the main cycle listens again.
C7_TimeoutNoRemoteCall ==
    [][ /\ (pc = "listen" /\ mode = "conversation" /\ printed' = P_Timeout
              /\ ~Interrupted) =>
              /\ pc' = "got_input"
              /\ user_prompt' = None
              /\ calls' = {}
              /\ UNCHANGED <<assistant_id, thread_id, mode, spoken>>
        /\ (MainHeard /\ printed = P_Timeout /\ ~Interrupted) =>
              /\ pc' = "listen"
              /\ printed' = P_NoInput
              /\ calls' = {}
              /\ UNCHANGED <<assistant_id, thread_id, mode, spoken>> ]_vars

\* C7: a capture that times out in the main cycle leaves assistant_id,
\* thread_id and the mode unchanged and issues no transcription, thread,
\* message or run call.  When the microphone is released without an
\* exception, get_audio_input() returns None, the turn issues no remote
\* call at all and the main cycle listens again.  When releasing the
\* microphone raises after the timeout, main()'s handler speaks the error
\* message, which is the one speech-synthesis call of the turn, and the
\* main cycle listens again.
C7_TimeoutNoCallUnlessReleaseFails ==
    [][ /\ (pc = "listen" /\ mode = "conversation" /\ printed' = P_Timeout
              /\ ~Interrupted) =>
              /\ calls' = {}
              /\ UNCHANGED <<assistant_id, thread_id, mode, spoken>>
              /\ \/ pc' = "got_input" /\ user_prompt' = None
                 \/ pc' = "speak_error" /\ exc' = "microphone"
        /\ (MainHeard /\ printed = P_Timeout /\ ~Interrupted) =>
              /\ pc' = "listen"
              /\ printed' = P_NoInput
              /\ calls' = {}
              /\ UNCHANGED <<assistant_id, thread_id, mode, spoken>>
        /\ (pc = "speak_error" /\ printed = P_Timeout /\ ~Interrupted) =>
              /\ pc' = "listen"
              /\ spoken'.text = ErrorText("microphone")
              /\ calls' = {"audio.speech.create"}
              /\ UNCHANGED <<assistant_id, thread_id, mode>> ]_vars

C7_Witness ==
    /\ pc = "listen"
    /\ mode = "conversation"
    /\ printed = P_NoInput
    /\ calls = {}
    /\ thread_id # None

C7_WitnessReleaseFails ==
    /\ pc = "speak_error"
    /\ printed = P_Timeout
    /\ exc = "microphone"
    /\ calls = {}
    /\ sessionEntries = 0

\* C8: if initialize_assistant() yields no handle, main() returns before the
\* greeting and before any capture; the main cycle runs only with a
\* non-empty assistant_id.
C8_NoAssistantNoCycle ==
    /\ (pc \notin {"init", "done"}) => assistant_id # None
    /\ (pc = "done" /\ assistant_id = None) =>
          /\ ~greeted
          /\ heard = 0
          /\ spoken.text = None
          /\ outcome = <<"returned">> => printed = P_InitFailed
    /\ (greeted \/ heard > 0) => assistant_id # None

C8_Witness ==
    /\ pc = "done"
    /\ outcome = <<"returned">>
    /\ assistant_id = None
    /\ ASSISTANT_ID # None
    /\ {"assistants.retrieve", "assistants.create"} \subseteq calls

CyclePcs ==
    {"listen", "transcribe", "got_input", "speak_error", "speak_response",
     "pause", "aa_get_thread", "aa_msg_create", "aa_run_create", "aa_poll",
     "aa_list", "oi_announce", "oi_chat", "oi_speak", "oi_exit_speak"}

\* C9: once the main cycle is entered no exception but an interrupt leaves
\* main(): a step of a turn that no interrupt ended leaves the program in
\* the cycle or at the exit farewell; a failure of the microphone is
\* spoken as an error and capture follows; a failure of transcription, of a
\* reasoning call, of the command agent or of speech synthesis is reported
\* and the turn goes on.
C9_NoExceptionEscapes ==
    /\ [](outcome[1] = "raised" => outcome[2] = "KeyboardInterrupt")
    /\ [][ /\ (pc \in CyclePcs /\ ~Interrupted) =>
                 pc' \in CyclePcs \cup {"farewell_exit"}
           /\ (pc = "listen" /\ pc' = "speak_error") => exc' = "microphone"
           /\ (pc = "speak_error" /\ ~Interrupted) =>
                 /\ spoken'.text = ErrorText("microphone")
                 /\ pc' = "listen"
           /\ (pc = "transcribe" /\ tempfiles' # tempfiles /\ ~Interrupted) =>
                 /\ pc' = "got_input"
                 /\ printed' = P_NoTranscript
           /\ (spoken' # spoken /\ spoken'.result = "raise" /\ ~Interrupted) =>
                 /\ pc' # "speak_error"
                 /\ exc' = exc
           /\ (pc = "oi_chat" /\ ~Interrupted) =>
                 /\ pc' = "oi_speak"
                 /\ oi_response' \in {AgentReply, AgentErrorText("agent failure")}
           /\ (pc = "oi_speak" /\ ~Interrupted) =>
                 /\ spoken'.text = oi_response
                 /\ pc' = "listen"
           /\ (pc \in {"aa_msg_create", "aa_run_create", "aa_poll", "aa_list"}
                 /\ ~Interrupted) =>
                 pc' \in {"aa_run_create", "aa_poll", "aa_list", "speak_response"}
         ]_vars

C9_Witness ==
    /\ pc = "listen"
    /\ spoken.text = ErrorText("microphone")
    /\ spoken.result = "raise"
    /\ printed = P_Listening
    /\ sessionEntries = 1

\* C10: an interrupt delivered after startup never leaves main(): main()
\* speaks the farewell and returns normally.
C10_InterruptNeverEscapes ==
    /\ ~( /\ outcome[1] = "raised"
          /\ outcome[2] = "KeyboardInterrupt"
          /\ outcome[3] \notin {"init", "welcome"} )
    /\ (pc = "done" /\ outcome = <<"returned">> /\ assistant_id # None) =>
          IsFarewell(spoken.text)


\* C11: when the exit phrase is recognized inside the session, control
\* returns to the main cycle in conversation mode and the session's terminal
\* message is spoken; the next utterance is then an utterance of the main
\* cycle: an exit word ends main(), an ordinary utterance is a conversation
\* query and is not forwarded to the command agent.
C11_SessionExitResumesMainCycle ==
    /\ [](pc \in {"speak_response", "pause"} => mode = "conversation")
    /\ [][ /\ (SessionHeard /\ IsSessionExit(user_input) /\ ~Interrupted) =>
                 pc' = "oi_exit_speak"
           /\ (pc = "oi_exit_speak" /\ ~Interrupted) =>
                 /\ pc' = "speak_response"
                 /\ mode' = "conversation"
                 /\ response' = SessionEndedText
           /\ (pc = "speak_response" /\ response = SessionEndedText
                 /\ ~Interrupted) =>
                 /\ spoken'.text = SessionEndedText
                 /\ pc' = "pause"
           /\ (pc = "pause" /\ ~Interrupted) =>
                 /\ pc' = "listen"
                 /\ mode' = "conversation"
           /\ (MainHeard /\ response = SessionEndedText
                 /\ IsExitWord(user_prompt) /\ ~Interrupted) =>
                 pc' = "farewell_exit"
           /\ (MainHeard /\ response = SessionEndedText
                 /\ user_prompt = T_hello) =>
                 /\ ~Interrupted => pc' \in {"aa_get_thread", "speak_response"}
                 /\ mode' = "conversation"
                 /\ "interpreter.chat" \notin calls' ]_vars

C11_Witness ==
    /\ pc = "farewell_exit"
    /\ response = SessionEndedText
    /\ spoken.text = SessionEndedText
    /\ sessionEntries = 1

C11_WitnessQuery ==
    /\ pc = "aa_get_thread"
    /\ response = SessionEndedText
    /\ spoken.text = SessionEndedText
    /\ user_prompt = T_hello

\* C12: every temporary audio file transcribe_audio created is deleted when
\* transcribe_audio has returned, whatever the outcome of the transcription
\* call: no temporary file remains.
C12_TempFilesDeleted == pc = "got_input" => tempfiles = 0

\* C13: the cached thread handle changes only by a successful
\* threads.create(), which is called only in get_or_create_thread() when no
\* handle is cached or the cached one was not retrieved; a retrieved handle
\* is reused without a creation; a failed creation leaves the cached value
\* and returns no handle; a cached handle is always tried first.
C13_ThreadHandleCache ==
    [][ /\ (thread_id' # thread_id) =>
              /\ pc = "aa_get_thread"
              /\ "threads.create" \in calls'
              /\ thread_id' # None
              /\ ~Interrupted => aa_thread' = thread_id'
        /\ ("threads.create" \in calls' /\ "threads.create" \notin calls) =>
              /\ pc = "aa_get_thread"
              /\ thread_id = None \/ "threads.retrieve" \in calls'
        /\ (pc = "aa_get_thread" /\ thread_id # None /\ ~Interrupted) =>
              "threads.retrieve" \in calls'
        /\ (pc = "aa_get_thread" /\ ~Interrupted) =>
              /\ ("threads.create" \notin calls') <=>
                    (thread_id # None /\ aa_thread' = thread_id)
              /\ (aa_thread' = None) =>
                    /\ thread_id' = thread_id
                    /\ "threads.create" \in calls'
                    /\ pc' = "speak_response"
              /\ (aa_thread' # None) => aa_thread' = thread_id' ]_vars

C13_Witness ==
    /\ pc = "aa_msg_create"
    /\ thread_id = <<"thread", 2>>
    /\ aa_thread = thread_id
    /\ {"threads.retrieve", "threads.create"} \subseteq calls


EndStatuses == {"completed", "failed", "cancelled", "expired"}

\* A poll of the run that observes one of the four end statuses, or raises,
\* or is interrupted: every iteration of the loop that is the last.
PollEnds ==
    /\ PollRun
    /\ \/ run_status' \in EndStatuses
       \/ pc' # "aa_poll"

\* The run of every query ends: some poll eventually observes an end status
\* or raises.
RunsEndSpec == Spec /\ WF_vars(PollEnds)

\* C14: the poll loop is left only by a poll that observes completed,
\* failed, cancelled or expired or by a call that raises; after any other
\* status it polls again, and polling again is possible without bound.  If
\* the run of a query reaches one of the four statuses or a poll raises,
\* the loop is left.
C14_PollLoopExit ==
    /\ [][ /\ (pc = "aa_poll" /\ ~Interrupted /\ pc' # "aa_poll") =>
                 \/ pc' = "aa_list" /\ run_status' = "completed"
                 \/ /\ pc' = "speak_response"
                    /\ run_status' \in {"failed", "cancelled", "expired"}
                 \/ /\ pc' = "speak_response"
                    /\ run_status' = run_status
                    /\ response' = ApologyText
           /\ (pc = "aa_poll" /\ ~Interrupted /\ run_status' \notin EndStatuses
                 /\ response' # ApologyText) =>
                 pc' = "aa_poll"
           /\ (pc = "aa_poll" /\ ~Interrupted /\ run_status' \in EndStatuses) =>
                 pc' # "aa_poll"
           /\ (pc = "aa_poll" /\ pc' = "aa_poll") =>
                 "runs.retrieve" \in calls' ]_vars
    /\ [](pc = "aa_poll" => ENABLED (PollRun /\ pc' = "aa_poll"))
    /\ (pc = "aa_poll" ~> pc # "aa_poll")

C14_Witness ==
    /\ pc = "aa_poll"
    /\ run_status = "requires_action"
    /\ "runs.retrieve" \in calls


\* A step of analyze_audio() in which the remote call raised an Exception.
QueryCallRaised ==
    \/ pc \in {"aa_msg_create", "aa_run_create"} /\ pc' \notin {"aa_run_create", "aa_poll"}
    \/ pc = "aa_poll" /\ pc' # "aa_poll" /\ run_status' = run_status
    \/ pc = "aa_list" /\ ~messages'.listed

\* C15: when the message append, the run creation, a poll or the message
\* listing of a query raises, analyze_audio returns the apology naming
\* USER_NAME, the apology is spoken, main() goes on to the next capture and
\* the assistant handle is the same.
C15_RemoteFailureApology ==
    [][ /\ (QueryCallRaised /\ ~Interrupted) =>
              /\ pc' = "speak_response"
              /\ response' =
                   <<"I'm sorry, ", USER_NAME,
                     ", I encountered an error while processing your request. How can I help you differently?">>
              /\ Names(response', USER_NAME)
              /\ outcome' = <<"running">>
              /\ UNCHANGED <<assistant_id, thread_id>>
        /\ (pc = "speak_response" /\ response = ApologyText /\ ~Interrupted) =>
              /\ spoken'.text = ApologyText
              /\ pc' = "pause"
              /\ assistant_id' = assistant_id
        /\ (pc = "pause" /\ ~Interrupted) =>
              /\ pc' = "listen"
              /\ assistant_id' = assistant_id
        /\ (pc \in CyclePcs) => assistant_id' = assistant_id ]_vars

C15_Witness ==
    /\ pc = "pause"
    /\ spoken.text = ApologyText
    /\ "messages.list" \in calls
    /\ ~messages.listed
    /\ run_status = "completed"

\* C16: when interpreter.chat() raises inside the session, the error message
\* is spoken and the session stays active: the next utterance is captured
\* inside the session and forwarded to the agent, and control does not
\* return to the main cycle.
C16_AgentFailureKeepsSession ==
    [][ /\ (pc = "oi_chat" /\ ~Interrupted) =>
              /\ pc' = "oi_speak"
              /\ mode' = "command"
              /\ "interpreter.chat" \in calls'
              /\ oi_response' \in {AgentReply, AgentErrorText("agent failure")}
        /\ (pc = "oi_speak" /\ ~Interrupted) =>
              /\ spoken'.text = oi_response
              /\ spoken'.voice = "onyx"
              /\ pc' = "listen"
              /\ mode' = "command"
        /\ (pc = "listen" /\ mode = "command"
              /\ pc' \in {"transcribe", "got_input"}) => mode' = "command"
        /\ (pc = "transcribe" /\ mode = "command" /\ pc' = "got_input") =>
              mode' = "command"
        /\ (SessionHeard /\ user_input = T_hello /\ ~Interrupted) =>
              /\ pc' = "oi_chat"
              /\ mode' = "command" ]_vars

C16_Witness ==
    /\ pc = "oi_chat"
    /\ mode = "command"
    /\ user_input = T_hello
    /\ spoken.text = AgentErrorText("agent failure")

\* C17: open_interpreter_session() returns normally only when "exit
\* interpreter", ignoring case, was captured; a capture without input is
\* followed by another capture without a call of the agent and without
\* speech; any other utterance is forwarded to the agent once; timeouts and
\* commands never end the session.
C17_SessionEndsOnlyOnExitPhrase ==
    [][ /\ (mode = "command" /\ mode' = "conversation" /\ ~Interrupted
              /\ pc' # "speak_error") =>
              /\ pc = "oi_exit_speak"
              /\ IsSessionExit(user_input)
              /\ response' = SessionEndedText
              /\ pc' = "speak_response"
        /\ (SessionHeard /\ user_input = None) =>
              /\ ~Interrupted => pc' = "listen" /\ mode' = "command"
              /\ calls' = calls
              /\ "interpreter.chat" \notin calls
              /\ spoken' = spoken
        /\ (SessionHeard /\ user_input # None /\ ~IsSessionExit(user_input)) =>
              /\ ~Interrupted => pc' = "oi_chat" /\ mode' = "command"
              /\ "interpreter.chat" \notin calls
        /\ (pc = "oi_chat") => "interpreter.chat" \in calls'
        /\ (pc \in {"oi_chat", "oi_speak"} /\ ~Interrupted) =>
              /\ mode' = "command"
              /\ pc' \in {"oi_speak", "listen"}
        /\ (pc = "oi_speak") => calls' \ calls \subseteq {"audio.speech.create"}
      ]_vars

C17_Witness ==
    /\ pc = "listen"
    /\ mode = "command"
    /\ printed = P_NoInputSession
    /\ spoken.text = AgentReply
    /\ tempfiles = 1


ReasoningCalls ==
    {"threads.retrieve", "threads.create", "messages.create", "runs.create",
     "runs.retrieve", "messages.list"}

\* C18: an utterance heard in conversation mode is an exit, a mode switch or
\* one query and never reaches the command agent; an utterance heard in
\* command-execution mode is a session exit or one call of the agent and no
\* call of the reasoning service is issued; the mode changes only when the
\* trigger phrase is heard in conversation mode and when the session returns
\* after its exit phrase.
C18_ModeDispatch ==
    [][ /\ (MainHeard /\ user_prompt # None /\ ~Interrupted) =>
              /\ pc' \in {"farewell_exit", "oi_announce", "aa_get_thread",
                          "speak_response"}
              /\ pc' = "farewell_exit" <=> IsExitWord(user_prompt)
              /\ pc' = "oi_announce" <=> IsTrigger(user_prompt)
        /\ mode = "conversation" => "interpreter.chat" \notin calls' \ calls
        /\ (SessionHeard /\ user_input # None /\ ~Interrupted) =>
              /\ pc' \in {"oi_exit_speak", "oi_chat"}
              /\ pc' = "oi_exit_speak" <=> IsSessionExit(user_input)
        /\ mode = "command" => (calls' \ calls) \cap ReasoningCalls = {}
        /\ (mode' # mode /\ ~Interrupted) =>
              \/ MainHeard /\ IsTrigger(user_prompt) /\ mode' = "command"
              \/ /\ pc = "oi_exit_speak"
                 /\ IsSessionExit(user_input)
                 /\ mode' = "conversation" ]_vars

\* C19: the assistant handle is assigned by the startup step only: the
\* configured identifier when its retrieval succeeded, a created one
\* otherwise; every later step leaves it alone and issues no assistant
\* retrieval or creation.
C19_AssistantHandleSetOnce ==
    [][ /\ pc # "init" =>
              /\ assistant_id' = assistant_id
              /\ calls' \cap {"assistants.retrieve", "assistants.create"}
                    \subseteq calls
        /\ (pc = "init" /\ ~Interrupted) =>
              /\ assistant_id' \in {ASSISTANT_ID, CreatedAssistant, None}
              /\ (ASSISTANT_ID # None /\ "assistants.create" \notin calls') =>
                    assistant_id' = ASSISTANT_ID
              /\ "assistants.create" \in calls' =>
                    assistant_id' \in {CreatedAssistant, None}
              /\ assistant_id' = None => pc' = "done"
              /\ ASSISTANT_ID # None <=> "assistants.retrieve" \in calls'
        /\ pc \in CyclePcs => assistant_id # None ]_vars

C19_Witness ==
    /\ assistant_id = ConfiguredAssistant
    /\ mode = "command"
    /\ pc = "oi_speak"
    /\ oi_response = AgentErrorText("agent failure")
    /\ heard = MaxUtterances

\* C20 as stated: no spoken response, the agent's responses inside the
\* session and the error message of the top-level handler included, is
\* followed by the next capture without the pause in between.
C20_PauseAfterEverySpeech ==
    [][ (pc \in {"speak_response", "oi_speak", "speak_error"}) =>
            (pc' # "listen") ]_vars

\* C20: a reply spoken by main() at lines 239 and 243, the session's
\* terminal message included, is followed by the pause and then by the next
\* capture; the session's announcement, the agent's responses and error
\* messages spoken inside the session and the error message of the
\* top-level handler are followed by the next capture with no pause; the
\* pause follows nothing else.
C20_PauseAfterMainReplies ==
    [][ /\ (pc = "speak_response" /\ ~Interrupted) =>
              /\ pc' = "pause"
              /\ spoken'.text = response
        /\ (pc = "pause" /\ ~Interrupted) => pc' = "listen"
        /\ (pc \in {"oi_announce", "oi_speak", "speak_error"} /\ ~Interrupted) =>
              pc' = "listen"
        /\ pc' = "pause" => pc \in {"speak_response", "pause"}
        /\ (pc' = "listen" /\ pc \notin {"listen", "pause"}) =>
              pc \in {"welcome", "got_input", "transcribe", "oi_announce",
                      "oi_speak", "speak_error"} ]_vars

C20_Witness ==
    /\ pc = "listen"
    /\ mode = "command"
    /\ spoken.text = AgentReply
    /\ "interpreter.chat" \in calls
    /\ "audio.speech.create" \in calls

====
